---- MODULE Spec2Model ----
(***************************************************************************)
(* The song service of backend/routes.py: a Flask application whose       *)
(* handlers translate HTTP requests into single-document operations on    *)
(* the MongoDB collection db.songs.                                        *)
(*                                                                         *)
(* The collection is a sequence of documents in natural (insertion)       *)
(* order; find_one, update_one and delete_one act on the first document   *)
(* that matches the filter.  A handler that makes several store calls     *)
(* (create_song, update_song) is one action per store call, so that the   *)
(* calls of concurrent requests interleave as the store serialises them.  *)
(***************************************************************************)
EXTENDS Integers, Sequences, FiniteSets

(* ------------------------- bounds and inputs -------------------------- *)

\* The most documents the collection holds.
MaxSongs == 2

\* The workers of the framework's pool: the requests handled at the same time.
Clients == {"c1", "c2"}

\* The application-level ids clients use, in payloads and in paths.
Ids == {-1, 1, 2}

Song(i, t, l) == [id |-> i, title |-> t, lyrics |-> l]

\* data/songs.json as delivered with the service.
SeedFile == <<Song(1, "t1", "l1"), Song(2, "t2", "l1")>>

\* The JSON bodies clients send to POST /song: a song of each id, and one
\* without id.
PostBodies ==
    {Song(i, "t1", "l1") : i \in Ids} \cup {[title |-> "t1", lyrics |-> "l1"]}

\* The JSON bodies clients send to PUT /song/<id>: title and lyrics, these
\* with another field, with an id, and bodies that lack title or lyrics.
PutBodies ==
    {[title |-> "t1", lyrics |-> "l1"], [title |-> "t2", lyrics |-> "l1"],
     [title |-> "t1", lyrics |-> "l2"]}
        \cup {[title |-> "t1", lyrics |-> "l1", artist |-> "a1"]}
        \cup {Song(2, "t1", "l1")}
        \cup {[title |-> "t1"], [lyrics |-> "l1"]}

\* What two workers are given when their requests interleave.
RaceIds == {1, 2}

RacePostBodies == {Song(1, "t1", "l1")}

RacePutBodies == {[title |-> "t2", lyrics |-> "l1"], Song(2, "t1", "l1")}

VARIABLES
    phase,  \* "down", "started" (the module body has just run), "serving"
    coll,   \* db.songs
    pc,     \* per worker: the step its handler takes next
    req,    \* per worker: the request it is serving
    song,   \* per worker: update_song's local `song`, the document looked up
    resp    \* per worker: the response its handler returned, not yet sent

vars == <<phase, coll, pc, req, song, resp>>

(* --------------------------- the document store ----------------------- *)

\* bson.ObjectId: the identifier the driver generates for a document.
ObjectId(n) == [ObjectId |-> n]

\* str(ObjectId): its hexadecimal text.
Str(oid) == <<"hex", oid.ObjectId>>

Min(S) == CHOOSE m \in S : \A n \in S : m <= n

\* The positions of the documents that match the filter {"id": i}.
Matches(c, i) == {k \in 1..Len(c) : c[k]["id"] = i}

\* find_one({"id": i}) when a document matches.
FindOne(c, i) == c[Min(Matches(c, i))]

\* An identifier no document of the collection carries.
NewObjectId(c) ==
    ObjectId(Min({n \in 1..(Len(c) + 1) :
                     \A k \in 1..Len(c) : c[k]["_id"] # ObjectId(n)}))

\* insert_one(doc): the driver adds _id, the store appends the document.
InsertOne(c, doc) ==
    Append(c, [f \in DOMAIN doc \cup {"_id"} |->
                  IF f = "_id" THEN NewObjectId(c) ELSE doc[f]])

RECURSIVE InsertMany(_, _)
\* insert_many(docs): the documents in order.
InsertMany(c, docs) ==
    IF docs = <<>> THEN c
    ELSE InsertMany(InsertOne(c, Head(docs)), Tail(docs))

\* The document after {"$set": fields}: the named fields replaced or added.
SetFields(doc, fields) ==
    [f \in DOMAIN doc \cup DOMAIN fields |->
        IF f \in DOMAIN fields THEN fields[f] ELSE doc[f]]

\* update_one with upsert=True: no match inserts the filter with the fields.
UpdateOneUpsert(c, i, fields) ==
    IF Matches(c, i) = {} THEN InsertOne(c, SetFields([id |-> i], fields))
    ELSE [c EXCEPT ![Min(Matches(c, i))] = SetFields(@, fields)]

\* update_one({"id": i}, {"$set": fields}): the first match, if any; no upsert.
UpdateOne(c, i, fields) ==
    IF Matches(c, i) = {} THEN c
    ELSE [c EXCEPT ![Min(Matches(c, i))] = SetFields(@, fields)]

\* delete_one({"id": i}): the first match, if any.
DeleteOne(c, i) ==
    IF Matches(c, i) = {} THEN c
    ELSE LET k == Min(Matches(c, i))
         IN  SubSeq(c, 1, k - 1) \o SubSeq(c, k + 1, Len(c))

(* ------------------------------ JSON ---------------------------------- *)

\* json.loads(bson.json_util.dumps(doc)): an ObjectId becomes {"$oid": hex}.
Dumps(doc) ==
    [f \in DOMAIN doc |->
        IF f = "_id" THEN [k \in {"$oid"} |-> Str(doc[f])] ELSE doc[f]]

\* flask.jsonify(doc) raises TypeError on an ObjectId, which the default JSON
\* provider cannot serialise; a store document carries one under _id.
Jsonifiable(doc) == "_id" \notin DOMAIN doc

(* ----------------------------- routing -------------------------------- *)

\* The <int:id> converter of the /song/<int:id> rules: digits only, so a
\* negative number matches no rule.
IntConverter(i) == i >= 0

NoBody == [f \in {} |-> 0]

Reply(status, body) == [status |-> status, body |-> body]

\* The framework's own answer to a path that matches no rule.
NotRouted == Reply(404, [error |-> "no rule matches"])

\* No response yet.
NoResp == Reply(0, NoBody)

\* No request in service.
NoReq == [ep |-> "none"]

\* Python's None, where a document is expected.
None == [f \in {} |-> 0]

Request(ep, i, body) == [ep |-> ep, id |-> i, body |-> body]

(* ----------------------------- handlers ------------------------------- *)

\* health(): ping answered.
healthResponse == Reply(200, [status |-> "OK"])

\* count()
countResponse(c) == Reply(200, [count |-> Len(c)])

\* songs()
songsResponse(c) ==
    Reply(200, [songs |-> [k \in 1..Len(c) |-> Dumps(c[k])]])

\* get_song_by_id(id) handing the document to jsonify as the store gave it.
get_song_by_idResponseRaw(c, i) ==
    IF ~IntConverter(i) THEN NotRouted
    ELSE IF Matches(c, i) = {}
    THEN Reply(404, [message |-> "song with id not found"])
    ELSE IF Jsonifiable(FindOne(c, i)) THEN Reply(200, FindOne(c, i))
    ELSE Reply(500, [error |-> "TypeError"])

\* get_song_by_id(id)
get_song_by_idResponse(c, i) ==
    IF ~IntConverter(i) THEN NotRouted
    ELSE IF Matches(c, i) = {}
    THEN Reply(404, [message |-> "song with id not found"])
    ELSE Reply(200, Dumps(FindOne(c, i)))

\* create_song(), when the lookup ends the request: song_data["id"] raises
\* KeyError, or a document with that id is found.
create_songEarly(body) ==
    IF "id" \notin DOMAIN body
    THEN Reply(500, [error |-> "KeyError"])
    ELSE Reply(302,
               [Message |-> <<"song with id", body["id"], "already present">>])

\* create_song() without the lookup of line 110.
create_songInsertsUnchecked(c, body) == "id" \in DOMAIN body

\* create_song() goes on to insert_one.
create_songInserts(c, body) ==
    "id" \in DOMAIN body /\ Matches(c, body["id"]) = {}

\* create_song(), after insert_one: the acknowledgment.
create_songResponse(oid) ==
    Reply(201, [k \in {"inserted id"} |-> Str(oid)])

\* update_song(id), lines 144-150: the read after the write, the comparison
\* with the submitted title and lyrics, and the answer.
update_songResponse(c, i, body) ==
    LET updated_song == FindOne(c, i)
        KeyError == Reply(500, [error |-> "KeyError"])
        TypeError == Reply(500, [error |-> "TypeError"])
        Updated == IF Jsonifiable(updated_song)
                   THEN Reply(200, updated_song)
                   ELSE TypeError
    IN  IF Matches(c, i) = {} THEN TypeError
        ELSE IF "lyrics" \notin DOMAIN updated_song \/ "lyrics" \notin DOMAIN body
        THEN KeyError
        ELSE IF updated_song["lyrics"] # body["lyrics"] THEN Updated
        ELSE IF "title" \notin DOMAIN updated_song \/ "title" \notin DOMAIN body
        THEN KeyError
        ELSE IF updated_song["title"] # body["title"] THEN Updated
        ELSE Reply(200, [message |-> "song found, but nothing updated"])

\* delete_song(id)
delete_songResponse(c, i) ==
    IF Matches(c, i) = {}
    THEN Reply(404, [message |-> "song not found"])
    ELSE Reply(204, NoBody)

(* ------------------------------ actions ------------------------------- *)

Init ==
    /\ phase = "down"
    /\ coll = <<>>
    /\ pc = [c \in Clients |-> "idle"]
    /\ req = [c \in Clients |-> NoReq]
    /\ song = [c \in Clients |-> None]
    /\ resp = [c \in Clients |-> NoResp]

\* load_data(): the seed file, or [] when it cannot be read or parsed.
load_data(readable) == IF readable THEN SeedFile ELSE <<>>

\* Lines 47-50 without the drop of line 49.
InitializeDatabaseNoDrop(c, songs_list) ==
    IF songs_list # <<>> THEN InsertMany(c, songs_list) ELSE c

\* The collection after lines 47-50: songs_list is read nowhere else.
InitializeDatabase(c, songs_list) ==
    IF songs_list # <<>> THEN InsertMany(<<>>, songs_list) ELSE c

\* The process starts (again): the module body runs against whatever the
\* database holds; the requests of an earlier run are gone.
Startup(readable) ==
    /\ coll' = InitializeDatabase(coll, load_data(readable))
    /\ phase' = "started"
    /\ pc' = [c \in Clients |-> "idle"]
    /\ req' = [c \in Clients |-> NoReq]
    /\ song' = [c \in Clients |-> None]
    /\ resp' = [c \in Clients |-> NoResp]

\* Worker c takes request r.
Accept(c, r) ==
    /\ phase # "down"
    /\ pc[c] = "idle"
    /\ req' = [req EXCEPT ![c] = r]
    /\ phase' = "serving"

\* The handler of worker c returns response r.
Return(c, r) ==
    /\ pc' = [pc EXCEPT ![c] = "respond"]
    /\ resp' = [resp EXCEPT ![c] = r]

\* The handler of worker c goes on to the store call `next`.
Goto(c, next) ==
    /\ pc' = [pc EXCEPT ![c] = next]
    /\ UNCHANGED resp

health(c) ==
    /\ Accept(c, [ep |-> "GET /health"])
    /\ Return(c, healthResponse)
    /\ UNCHANGED <<coll, song>>

count(c) ==
    /\ Accept(c, [ep |-> "GET /count"])
    /\ Return(c, countResponse(coll))
    /\ UNCHANGED <<coll, song>>

songs(c) ==
    /\ Accept(c, [ep |-> "GET /song"])
    /\ Return(c, songsResponse(coll))
    /\ UNCHANGED <<coll, song>>

get_song_by_id(c, i) ==
    /\ Accept(c, Request("GET /song/<id>", i, NoBody))
    /\ Return(c, get_song_by_idResponse(coll, i))
    /\ UNCHANGED <<coll, song>>

\* The inserts that requests in flight have still to make.
PendingInserts == Cardinality({c \in Clients : pc[c] = "insert"})

\* create_song(), lines 107-111: get_json and the lookup.
create_song(c, body) ==
    /\ Accept(c, Request("POST /song", 0, body))
    /\ IF create_songInserts(coll, body)
       THEN /\ Len(coll) + PendingInserts < MaxSongs
            /\ Goto(c, "insert")
       ELSE Return(c, create_songEarly(body))
    /\ UNCHANGED <<coll, song>>

\* create_song(), lines 114-117: insert_one and the acknowledgment.
create_songInsert(c) ==
    /\ pc[c] = "insert"
    /\ coll' = InsertOne(coll, req[c].body)
    /\ Return(c, create_songResponse(NewObjectId(coll)))
    /\ UNCHANGED <<phase, req, song>>

\* update_song(id), lines 128-135: get_json and the lookup.
update_song(c, i, body) ==
    /\ Accept(c, Request("PUT /song/<id>", i, body))
    /\ IF ~IntConverter(i)
       THEN Return(c, NotRouted) /\ UNCHANGED song
       ELSE IF Matches(coll, i) = {}
       THEN /\ Return(c, Reply(404, [message |-> "song not found"]))
            /\ UNCHANGED song
       ELSE /\ song' = [song EXCEPT ![c] = FindOne(coll, i)]
            /\ Goto(c, "update")
    /\ UNCHANGED coll

\* update_song(id), lines 138-141: update_one.
update_songWrite(c) ==
    /\ pc[c] = "update"
    /\ coll' = UpdateOne(coll, req[c].id, req[c].body)
    /\ Goto(c, "read")
    /\ UNCHANGED <<phase, req, song>>

\* update_song(id), lines 144-150: the read back and the answer.
update_songRead(c) ==
    /\ pc[c] = "read"
    /\ Return(c, update_songResponse(coll, req[c].id, req[c].body))
    /\ UNCHANGED <<phase, coll, req, song>>

delete_song(c, i) ==
    /\ Accept(c, Request("DELETE /song/<id>", i, NoBody))
    /\ IF ~IntConverter(i)
       THEN /\ Return(c, NotRouted)
            /\ UNCHANGED coll
       ELSE /\ coll' = DeleteOne(coll, i)
            /\ Return(c, delete_songResponse(coll, i))
    /\ UNCHANGED song

\* The framework sends the response of worker c, which is free again.
Send(c) ==
    /\ pc[c] = "respond"
    /\ pc' = [pc EXCEPT ![c] = "idle"]
    /\ req' = [req EXCEPT ![c] = NoReq]
    /\ song' = [song EXCEPT ![c] = None]
    /\ resp' = [resp EXCEPT ![c] = NoResp]
    /\ UNCHANGED <<phase, coll>>

\* Worker c takes a step: a request drawn from the given inputs, the next
\* store call of its handler, or the sending of its response.
Serve(c, ids, posts, puts) ==
    \/ health(c)
    \/ count(c)
    \/ songs(c)
    \/ \E i \in ids : get_song_by_id(c, i)
    \/ \E body \in posts : create_song(c, body)
    \/ create_songInsert(c)
    \/ \E i \in ids, body \in puts : update_song(c, i, body)
    \/ update_songWrite(c)
    \/ update_songRead(c)
    \/ \E i \in ids : delete_song(c, i)
    \/ Send(c)

\* One request at a time.
Next ==
    \/ \E readable \in BOOLEAN : Startup(readable)
    \/ Serve("c1", Ids, PostBodies, PutBodies)

Spec == Init /\ [][Next]_vars

\* The requests of the two workers interleave at their store calls.
NextConcurrent ==
    \/ \E readable \in BOOLEAN : Startup(readable)
    \/ \E c \in Clients : Serve(c, RaceIds, RacePostBodies, RacePutBodies)

Concurrent == Init /\ [][NextConcurrent]_vars

(* ------------------------------- claims ------------------------------- *)

\* The fields of a document that the client sent: all but the store's _id.
Visible(doc) == [f \in DOMAIN doc \ {"_id"} |-> doc[f]]

\* A worker whose handler has returned the answer to a request of endpoint ep.
Answered(c, ep) == pc[c] = "respond" /\ req[c].ep = ep

NothingUpdated == Reply(200, [message |-> "song found, but nothing updated"])

\* The submitted title and lyrics are those of the document.
SameTitleAndLyrics(body, doc) ==
    \A f \in {"title", "lyrics"} :
        f \in DOMAIN body /\ f \in DOMAIN doc /\ body[f] = doc[f]

\* C1: no two documents of the collection have the same id, in every state
\* the requests of the workers lead to from a collection of distinct ids.
C1_UniqueIds ==
    \A j, k \in 1..Len(coll) : j # k => coll[j]["id"] # coll[k]["id"]

\* C2: POST /song with the id of a stored document answers 302 with the
\* message "song with id i already present", goes on to no insert and leaves
\* the collection as it was.
C2_DuplicatePost ==
    [][\A c \in Clients :
          (pc[c] = "idle" /\ req'[c].ep = "POST /song"
              /\ create_song(c, req'[c].body)
              /\ "id" \in DOMAIN req'[c].body
              /\ Matches(coll, req'[c].body["id"]) # {})
          => /\ pc'[c] = "respond"
             /\ resp'[c].status = 302
             /\ resp'[c].body =
                   [Message |-> <<"song with id", req'[c].body["id"],
                                  "already present">>]
             /\ coll' = coll]_vars

\* A POST of a stored id has been answered 302 while the stored document
\* has another title than the one posted.
C2_Witness ==
    \E c \in Clients :
        /\ Answered(c, "POST /song")
        /\ resp[c].status = 302
        /\ \E k \in 1..Len(coll) :
              /\ coll[k]["id"] = req[c].body["id"]
              /\ coll[k]["title"] # req[c].body["title"]

\* POST /song with body p of a fresh id goes on to insert and answers 201,
\* and GET /song/{p.id} on the collection as the insert left it answers 200
\* with a document whose visible fields are p; for the payloads `covered`.
RoundTrip(covered) ==
    \A c \in Clients :
        /\ (pc[c] = "idle" /\ req'[c].ep = "POST /song"
               /\ create_song(c, req'[c].body)
               /\ req'[c].body \in covered
               /\ Matches(coll, req'[c].body["id"]) = {})
           => pc'[c] = "insert"
        /\ (pc[c] = "insert" /\ create_songInsert(c)
               /\ req[c].body \in covered)
           => /\ resp'[c].status = 201
              /\ LET got == get_song_by_idResponse(coll', req[c].body["id"])
                 IN  got.status = 200 /\ Visible(got.body) = req[c].body

C4_DeleteThenGet ==
    [][\A c \in Clients, i \in {j \in Ids : IntConverter(j)} :
          delete_song(c, i)
          => IF Matches(coll, i) = {}
             THEN resp'[c].status = 404 /\ coll' = coll
             ELSE /\ resp'[c].status = 204
                  /\ get_song_by_idResponse(coll', i).status = 404]_vars

\* C5: a PUT on a stored document that changes title or lyrics answers 200
\* with the updated song; the answer "song found, but nothing updated" is
\* given only when the submitted title and lyrics are the stored ones.
C5_NothingUpdatedOnlyIfUnchanged ==
    \A c \in Clients :
        (Answered(c, "PUT /song/<id>") /\ song[c] # None)
        => /\ resp[c] = NothingUpdated
                 => SameTitleAndLyrics(req[c].body, song[c])
           /\ (\E f \in {"title", "lyrics"} :
                  /\ f \in DOMAIN req[c].body
                  /\ f \in DOMAIN song[c] => req[c].body[f] # song[c][f])
              => /\ resp[c].status = 200
                 /\ Visible(resp[c].body)
                       = Visible(SetFields(song[c], req[c].body))

\* C6: a PUT whose title and lyrics are those of the stored document answers
\* 200 with "song found, but nothing updated", whatever else it submits.
C6_SameTitleAndLyricsIsNoOp ==
    \A c \in Clients :
        (Answered(c, "PUT /song/<id>") /\ song[c] # None
            /\ SameTitleAndLyrics(req[c].body, song[c]))
        => resp[c] = NothingUpdated

\* C7: a request answered 500 leaves the collection as it was: the step that
\* answers changes nothing, and the document a handler looked up before
\* (update_song's) is still stored as it was found.
C7_AllOrNothing ==
    [][\A c \in Clients :
          (pc[c] # "respond" /\ pc'[c] = "respond" /\ resp'[c].status = 500)
          => /\ coll' = coll
             /\ song[c] # None => \E k \in 1..Len(coll') : coll'[k] = song[c]]_vars

\* C8: no answer of GET /song, GET /song/{id} or PUT /song/{id} carries the
\* store's identifier of a document.
C8_NoInternalId ==
    \A c \in Clients :
        (pc[c] = "respond" /\ resp[c].status = 200)
        => CASE req[c].ep = "GET /song" ->
                    \A k \in DOMAIN resp[c].body["songs"] :
                        "_id" \notin DOMAIN resp[c].body["songs"][k]
             [] req[c].ep \in {"GET /song/<id>", "PUT /song/<id>"} ->
                    "_id" \notin DOMAIN resp[c].body
             [] OTHER -> TRUE

\* After a startup whose seed loading had one of the given outcomes, the
\* collection is the seed records, whatever it held, and GET /count answers
\* 200 with their number.
SeedsOnly(outcomes) ==
    \A readable \in outcomes :
        (phase' = "started" /\ Startup(readable))
        => /\ [k \in 1..Len(coll') |-> Visible(coll'[k])] = load_data(readable)
           /\ countResponse(coll') = Reply(200, [count |-> Len(load_data(readable))])

\* C9 as claimed: after every startup, whatever the collection held and
\* however seed loading ended, the collection holds exactly the seed records.
C9_SeedsOnlyAnyOutcome == [][SeedsOnly(BOOLEAN)]_vars

\* C9 as amended: after every startup in which load_data returned at least
\* one record, whatever the collection held.
C9_SeedsOnly ==
    [][SeedsOnly({r \in BOOLEAN : load_data(r) # <<>>})]_vars

\* The service has just started on the seed records.
C9_Witness ==
    /\ phase = "started"
    /\ [k \in 1..Len(coll) |-> Visible(coll[k])] = SeedFile

\* C10: the write of a PUT adds and removes no document and changes at most
\* one, which had the id of the path, whatever the other worker has done
\* since the PUT's lookup.
C10_WriteFrame ==
    [][\A c \in Clients :
          update_songWrite(c)
          => /\ [k \in 1..Len(coll') |-> coll'[k]["_id"]]
                   = [k \in 1..Len(coll) |-> coll[k]["_id"]]
             /\ \A j, k \in 1..Len(coll) :
                   (coll'[j] # coll[j] /\ coll'[k] # coll[k]) => j = k
             /\ \A k \in 1..Len(coll) :
                   coll'[k] # coll[k] => coll[k]["id"] = req[c].id]_vars

\* A PUT has made its write after the document it looked up was deleted.
C10_Witness ==
    \E c \in Clients :
        /\ pc[c] = "read"
        /\ \A k \in 1..Len(coll) : coll[k]["_id"] # song[c]["_id"]

====
